---- MODULE Spec2Model ----
(***************************************************************************)
(* The scan driver of gitleaks (package scan): Repo.Scan with its modes    *)
(* (history walk with a bounded pool of workers, Commit, FilesAtCommit,    *)
(* Commits, CommitsFile) and Repo.scanUncommitted with its empty-repo      *)
(* fallback.  Goroutines are threads: thread Main runs Scan or             *)
(* scanUncommitted, thread h (a commit hash) is the worker goroutine the   *)
(* history walk starts for commit h.  The repository, the files and the    *)
(* clock are the environment: what the program reads from them is chosen   *)
(* at the step that reads it.                                              *)
(***************************************************************************)
EXTENDS Integers, Sequences, FiniteSets, TLC

\* ------------------------------------------------------------ bounds
MaxCommits == 2    \* commits in the object store / yielded by the log iterator
MaxThreads == 2    \* largest value of the Threads option
MaxUnits == 2      \* units (files, chunks) read from one tree, patch or
                   \* status; parents per commit; references per list
MaxText == 4       \* characters in the output of the porcelain command

\* ------------------------------------------------------------ constants
Main == 0
Hashes == 1..MaxCommits
ZeroHash == 0
HeadHash == 1
Latest == "latest"

patchScan == 1
uncommittedScan == 2
commitScan == 3

Equal == "Equal"
Add == "Add"
Delete == "Delete"

nil == "nil"

Goroutines == 0..MaxCommits
Workers == 1..MaxCommits

VARIABLES
    Opts,        \* repo.Manager.Opts
    Allowlist,   \* repo.config.Allowlist.Commits
    entry,       \* the entry point called: "Scan" or "scanUncommitted"
    cancel,      \* repo.cancel is non-nil
    deferred,    \* Scan has deferred repo.cancel()
    cancelCalls, \* number of calls of repo.cancel
    deadline,    \* "none" (no timeout), "armed", "passed"
    pc,          \* position of each goroutine
    c,           \* the commit each goroutine scans
    nparents,    \* len(c.ParentHashes) of the commit Main holds
    units,       \* units (files, chunks) each goroutine has read from the
                 \* tree, patch or status it scans
    pi,          \* parents consumed by scanCommitPatches
    bundle,      \* the bundle each goroutine has handed to CheckRules
    patch,       \* the patch each goroutine holds: "none", "ok", "nil"
    mode,        \* the production path Scan selected
    refs,        \* the commit references of the selected mode
    ri,          \* index of the reference being scanned
    cc,          \* Scan's commit counter
    semaphore,   \* number of elements in the semaphore channel
    wg,          \* the wait group's counter
    err,         \* Scan's variable err (line 110, assigned at 122 and 135)
    logLen,      \* commits the log iterator holds
    yielded,     \* commits the log iterator has yielded
    stop,        \* why the history walk ended
    entered,     \* hashes of the commits the walk counted in cc
    inlined,     \* hashes of the root commits the walk scanned itself
    submitted,   \* hashes of the commits a worker was started for
    faulted,     \* hashes of the commits whose patch generation faulted
    panicked,    \* worker goroutines that panicked
    Commits,     \* the manager's commit counter
    times,       \* calls of Manager.RecordTime, per kind
    firstErr,    \* the first fatal error a producer met
    ret,         \* what the entry point returned ("running" before)
    crashed,     \* the process died (unrecovered panic, log.Fatal)
    calls,       \* the calls of scanCommit: the reference, how far it got
    output,      \* the output of the porcelain command of getStagedChanges
    stagedFiles  \* the file names getStagedChanges returned

vars == <<Opts, Allowlist, entry, cancel, deferred, cancelCalls, deadline, pc, c,
          nparents, units, pi, bundle, patch, mode, refs, ri, cc, semaphore, wg,
          err, logLen, yielded, stop, entered, inlined, submitted, faulted, panicked, Commits,
          times, firstErr, ret, crashed, calls, output, stagedFiles>>

\* ------------------------------------------------------------ data
\* object.Commit as the scan uses it
CommitObject(h) ==
    [Hash |-> h, Message |-> "msg", Name |-> "author", Email |-> "email", When |-> 1]

NilCommit == [Hash |-> -1, Message |-> "", Name |-> "", Email |-> "", When |-> 0]

\* Mutant of emptyCommit: the commit of HEAD as it is.
HeadCommitAsItIs == CommitObject(HeadHash)

\* emptyCommit(): the commit of the staged changes
emptyCommit ==
    [Hash |-> ZeroHash, Message |-> "***STAGED CHANGES***", Name |-> "", Email |-> "",
     When |-> 0]

\* Bundle; fromBinary and late record where the content came from: a binary
\* file, and a unit reached after the deadline had passed.
Bundle(commit, st, op, bin, late) ==
    [Commit |-> commit, scanType |-> st, Operation |-> op, Content |-> "",
     fromBinary |-> bin, late |-> late]

NoBundle == Bundle(NilCommit, 0, Equal, FALSE, FALSE)

\* Hash.String() and plumbing.NewHash: a hash and its hexadecimal text.  A text
\* that names no object of the store converts to a hash CommitObject rejects.
HashText == <<"c1", "c2", "c3", "c4", "c5", "c6">>

String(h) == HashText[h]

NewHash(s) ==
    IF \E h \in Hashes : HashText[h] = s
    THEN CHOOSE h \in Hashes : HashText[h] = s
    ELSE ZeroHash

RefTexts == {Latest, "bad"} \cup {String(h) : h \in Hashes}

\* ------------------------------------------------------------ collaborators
\* howManyThreads: a non-positive thread count means the number of CPUs.
NumCPU == MaxThreads

howManyThreads(t) == IF t > 0 THEN t ELSE NumCPU

\* repo.timeoutReached()
timeoutReached == deadline = "passed"

\* isCommitAllowListed(hash, repo.config.Allowlist.Commits)
isCommitAllowListed(h, list) == h \in list

\* repo.setupTimeout(): the error, and the cancel handle and deadline it installs.
setupTimeout(t) ==
    CASE t = ""    -> [err |-> nil, cancel |-> FALSE, deadline |-> "none"]
      [] t = "bad" -> [err |-> "ErrTimeout", cancel |-> FALSE, deadline |-> "none"]
      [] OTHER     -> [err |-> nil, cancel |-> TRUE, deadline |-> "armed"]

\* Mutant of depthReached: the depth is compared one commit late.
depthReachedLate(i) == Opts.Depth # 0 /\ Opts.Depth + 1 = i

\* depthReached checks if i meets the depth (--depth=) if set
depthReached(i) == Opts.Depth # 0 /\ Opts.Depth = i

\* ------------------------------------------------------------ initial states
NoModeOpts == [Commit : {""}, FilesAtCommit : {""}, Commits : {<<>>}, CommitsFile : {""}]

Options(budget, modes) ==
    {[Threads |-> b.Threads, Depth |-> b.Depth, CommitTo |-> b.CommitTo,
      Deletion |-> b.Deletion, RepoConfig |-> b.RepoConfig, Timeout |-> b.Timeout,
      Commit |-> m.Commit, FilesAtCommit |-> m.FilesAtCommit,
      Commits |-> m.Commits, CommitsFile |-> m.CommitsFile] :
        b \in budget, m \in modes}

\* History scans that exercise the worker pool: every thread count, no budget.
PoolOpts ==
    Options([Threads : 1..MaxThreads, Depth : {0}, CommitTo : {""}, Deletion : {FALSE},
             RepoConfig : {FALSE}, Timeout : {"", "1s"}], NoModeOpts)

\* History scans that exercise the budget gate: one thread, every depth and
\* terminal commit; and the setup of Scan, with every timeout and configuration.
BudgetOpts ==
    Options([Threads : {1}, Depth : 0..MaxCommits,
             CommitTo : {""} \cup {String(h) : h \in Hashes}, Deletion : BOOLEAN,
             RepoConfig : {FALSE}, Timeout : {"", "1s"}], NoModeOpts)
    \cup
    Options([Threads : {1}, Depth : {0}, CommitTo : {""}, Deletion : {FALSE},
             RepoConfig : BOOLEAN, Timeout : {"", "1s", "bad"}], NoModeOpts)

\* The other modes of Scan: the option that selects the mode takes every value
\* with the others empty, and every combination of set and empty options occurs.
ListTexts == {Latest, "bad", String(HeadHash)}

TokenLists == UNION {[1..n -> ListTexts] : n \in 1..MaxUnits}

ModeOpts ==
    Options([Threads : {1}, Depth : {0}, CommitTo : {""}, Deletion : BOOLEAN,
             RepoConfig : {FALSE}, Timeout : {"", "1s"}],
            [Commit : RefTexts, FilesAtCommit : {""}, Commits : {<<>>}, CommitsFile : {""}]
            \cup [Commit : {""}, FilesAtCommit : RefTexts, Commits : {<<>>},
                  CommitsFile : {""}]
            \cup [Commit : {""}, FilesAtCommit : {""}, Commits : TokenLists,
                  CommitsFile : {""}]
            \cup [Commit : {"", "c1"}, FilesAtCommit : {"", "c2"},
                  Commits : {<<>>, <<Latest>>}, CommitsFile : {"", "file"}])

\* The options scanUncommitted reads.
UncommittedOpts ==
    Options([Threads : {1}, Depth : {0}, CommitTo : {""}, Deletion : {FALSE},
             RepoConfig : BOOLEAN, Timeout : {"", "1s", "bad"}], NoModeOpts)

InitRest ==
    /\ cancel = FALSE /\ deferred = FALSE /\ cancelCalls = 0
    /\ deadline = "none"
    /\ pc = [t \in Goroutines |-> IF t = Main THEN entry ELSE "idle"]
    /\ c = [t \in Goroutines |-> NilCommit]
    /\ nparents = 0
    /\ units = [t \in Goroutines |-> 0]
    /\ pi = 0
    /\ bundle = [t \in Goroutines |-> NoBundle]
    /\ patch = [t \in Goroutines |-> "none"]
    /\ mode = "none" /\ refs = <<>> /\ ri = 0
    /\ cc = 0 /\ semaphore = 0 /\ wg = 0 /\ err = nil
    /\ yielded = 0 /\ stop = "none"
    /\ entered = {} /\ inlined = {} /\ submitted = {} /\ faulted = {} /\ panicked = {}
    /\ Commits = 0
    /\ times = [PatchTime |-> 0, ScanTime |-> 0]
    /\ firstErr = nil /\ ret = "running" /\ crashed = FALSE
    /\ calls = <<>> /\ stagedFiles = <<>>

InitPool ==
    /\ entry = "Scan"
    /\ Opts \in PoolOpts
    /\ Allowlist = {}
    /\ logLen \in 0..MaxCommits
    /\ output = <<>>
    /\ InitRest

InitBudget ==
    /\ entry = "Scan"
    /\ Opts \in BudgetOpts
    /\ Allowlist \in SUBSET Hashes
    /\ logLen \in 0..MaxCommits
    /\ output = <<>>
    /\ InitRest

InitModes ==
    /\ entry = "Scan"
    /\ Opts \in ModeOpts
    /\ Allowlist \in {{}, {HeadHash}}
    /\ logLen = MaxCommits
    /\ output = <<>>
    /\ InitRest

InitUncommitted ==
    /\ entry = "scanUncommitted"
    /\ Opts \in UncommittedOpts
    /\ Allowlist = {}
    /\ logLen = MaxCommits
    /\ output = <<>>
    /\ InitRest

Init == InitBudget \/ InitModes \/ InitUncommitted

\* ------------------------------------------------------------ Scan: setup
FirstErr(e) == IF firstErr = nil THEN e ELSE firstErr

\* Mutant of DeferCancel: the cancel is never deferred.
DeferCancelNever(handle) == FALSE

\* if repo.cancel != nil { defer repo.cancel() }
DeferCancel(handle) == handle

\* Scan returns e: the deferred cancel runs.
ScanReturn(e) ==
    /\ pc' = [pc EXCEPT ![Main] = "done"]
    /\ ret' = e
    /\ firstErr' = FirstErr(e)
    /\ cancelCalls' = IF deferred THEN cancelCalls + 1 ELSE cancelCalls

\* Scan, lines 56-61: install the timeout, defer the cancel.
ScanSetupTimeout ==
    /\ ~crashed /\ pc[Main] = "Scan"
    /\ LET r == setupTimeout(Opts.Timeout) IN
       \/ /\ r.err # nil
          /\ pc' = [pc EXCEPT ![Main] = "done"]
          /\ ret' = r.err
          /\ firstErr' = FirstErr(r.err)
          /\ UNCHANGED <<Opts, Allowlist, entry, cancel, deferred, cancelCalls,
                         deadline, c, nparents, units, pi, bundle, patch, mode, refs,
                         ri, cc, semaphore, wg, err, logLen, yielded, stop, entered,
                         inlined, submitted, faulted, panicked, Commits, times,
                         crashed, calls, output, stagedFiles>>
       \/ /\ r.err = nil
          /\ cancel' = r.cancel
          /\ deadline' = r.deadline
          /\ deferred' = DeferCancel(r.cancel)
          /\ pc' = [pc EXCEPT ![Main] = "repo"]
          /\ UNCHANGED <<Opts, Allowlist, entry, cancelCalls, c, nparents, units, pi,
                         bundle, patch, mode, refs, ri, cc, semaphore, wg, err, logLen,
                         yielded, stop, entered, inlined, submitted, faulted, panicked,
                         Commits, times, firstErr, ret, crashed, calls, output,
                         stagedFiles>>

\* Scan, lines 63-76: the repo handle, the per-repo configuration.
ScanLoadConfig ==
    /\ ~crashed /\ pc[Main] = "repo"
    /\ \/ /\ ScanReturn("ErrRepoEmpty")
          /\ UNCHANGED <<Opts, Allowlist, entry, cancel, deferred, deadline, c,
                         nparents, units, pi, bundle, patch, mode, refs, ri, cc,
                         semaphore, wg, err, logLen, yielded, stop, entered, inlined,
                         submitted, faulted, panicked, Commits, times, crashed, calls,
                         output, stagedFiles>>
       \/ /\ Opts.RepoConfig
          /\ ScanReturn("ErrConfig")
          /\ UNCHANGED <<Opts, Allowlist, entry, cancel, deferred, deadline, c,
                         nparents, units, pi, bundle, patch, mode, refs, ri, cc,
                         semaphore, wg, err, logLen, yielded, stop, entered, inlined,
                         submitted, faulted, panicked, Commits, times, crashed, calls,
                         output, stagedFiles>>
       \/ /\ Opts.RepoConfig
          /\ \E cfg \in SUBSET Hashes : Allowlist' = cfg
          /\ pc' = [pc EXCEPT ![Main] = "select"]
          /\ UNCHANGED <<Opts, entry, cancel, deferred, cancelCalls, deadline, c,
                         nparents, units, pi, bundle, patch, mode, refs, ri, cc,
                         semaphore, wg, err, logLen, yielded, stop, entered, inlined,
                         submitted, faulted, panicked, Commits, times, firstErr, ret,
                         crashed, calls, output, stagedFiles>>
       \/ /\ ~Opts.RepoConfig
          /\ pc' = [pc EXCEPT ![Main] = "select"]
          /\ UNCHANGED <<Opts, Allowlist, entry, cancel, deferred, cancelCalls,
                         deadline, c, nparents, units, pi, bundle, patch, mode, refs,
                         ri, cc, semaphore, wg, err, logLen, yielded, stop, entered,
                         inlined, submitted, faulted, panicked, Commits, times,
                         firstErr, ret, crashed, calls, output, stagedFiles>>

\* Scan, lines 80-117: the first option set selects the production path.
SelectMode ==
    /\ ~crashed /\ pc[Main] = "select"
    /\ \/ /\ Opts.Commit # ""
          /\ mode' = "Commit" /\ refs' = <<Opts.Commit>> /\ ri' = 1
          /\ pc' = [pc EXCEPT ![Main] = "scanCommit"]
          /\ UNCHANGED <<Opts, Allowlist, entry, cancel, deferred, cancelCalls,
                         deadline, c, nparents, units, pi, bundle, patch, cc,
                         semaphore, wg, err, logLen, yielded, stop, entered, inlined,
                         submitted, faulted, panicked, Commits, times, firstErr, ret,
                         crashed, calls, output, stagedFiles>>
       \/ /\ Opts.Commit = "" /\ Opts.FilesAtCommit # ""
          /\ mode' = "FilesAtCommit" /\ refs' = <<Opts.FilesAtCommit>> /\ ri' = 1
          /\ pc' = [pc EXCEPT ![Main] = "scanCommit"]
          /\ UNCHANGED <<Opts, Allowlist, entry, cancel, deferred, cancelCalls,
                         deadline, c, nparents, units, pi, bundle, patch, cc,
                         semaphore, wg, err, logLen, yielded, stop, entered, inlined,
                         submitted, faulted, panicked, Commits, times, firstErr, ret,
                         crashed, calls, output, stagedFiles>>
       \/ /\ Opts.Commit = "" /\ Opts.FilesAtCommit = "" /\ Opts.Commits # <<>>
          /\ mode' = "Commits" /\ refs' = Opts.Commits /\ ri' = 1
          /\ pc' = [pc EXCEPT ![Main] = "scanCommit"]
          /\ UNCHANGED <<Opts, Allowlist, entry, cancel, deferred, cancelCalls,
                         deadline, c, nparents, units, pi, bundle, patch, cc,
                         semaphore, wg, err, logLen, yielded, stop, entered, inlined,
                         submitted, faulted, panicked, Commits, times, firstErr, ret,
                         crashed, calls, output, stagedFiles>>
       \/ /\ Opts.Commit = "" /\ Opts.FilesAtCommit = "" /\ Opts.Commits = <<>>
          /\ Opts.CommitsFile # ""
          /\ mode' = "CommitsFile"
          /\ \/ /\ ScanReturn("ErrOpen")
                /\ UNCHANGED <<Opts, Allowlist, entry, cancel, deferred, deadline, c,
                               nparents, units, pi, bundle, patch, refs, ri, cc,
                               semaphore, wg, err, logLen, yielded, stop, entered,
                               inlined, submitted, faulted, panicked, Commits, times,
                               crashed, calls, output, stagedFiles>>
             \/ /\ ri' = 1
                /\ pc' = [pc EXCEPT ![Main] = "scanCommit"]
                /\ UNCHANGED <<Opts, Allowlist, entry, cancel, deferred, cancelCalls,
                               deadline, c, nparents, units, pi, bundle, patch, refs,
                               cc, semaphore, wg, err, logLen, yielded, stop, entered,
                               inlined, submitted, faulted, panicked, Commits, times,
                               firstErr, ret, crashed, calls, output, stagedFiles>>
       \/ /\ Opts.Commit = "" /\ Opts.FilesAtCommit = "" /\ Opts.Commits = <<>>
          /\ Opts.CommitsFile = ""
          /\ \/ /\ ScanReturn("ErrLog")
                /\ UNCHANGED <<Opts, Allowlist, entry, cancel, deferred, deadline, c,
                               nparents, units, pi, bundle, patch, mode, refs, ri, cc,
                               semaphore, wg, err, logLen, yielded, stop, entered,
                               inlined, submitted, faulted, panicked, Commits, times,
                               crashed, calls, output, stagedFiles>>
             \/ /\ mode' = "walk"
                /\ pc' = [pc EXCEPT ![Main] = "walk"]
                /\ UNCHANGED <<Opts, Allowlist, entry, cancel, deferred, cancelCalls,
                               deadline, c, nparents, units, pi, bundle, patch, refs,
                               ri, cc, semaphore, wg, err, logLen, yielded, stop,
                               entered, inlined, submitted, faulted, panicked, Commits,
                               times, firstErr, ret, crashed, calls, output,
                               stagedFiles>>

\* ------------------------------------------------------------ Scan: history walk
\* Mutant of SemaphoreHasRoom: the send never blocks (an unbounded channel).
SemaphoreNeverBlocks == TRUE

\* The semaphore channel has room: a send on it does not block (line 177).
SemaphoreHasRoom == semaphore < howManyThreads(Opts.Threads)

\* cIter.ForEach returns e (line 122): the walk is over, Scan goes on to wg.Wait().
WalkEnds(e, why) ==
    /\ err' = e
    /\ stop' = why
    /\ firstErr' = FirstErr(e)
    /\ pc' = [pc EXCEPT ![Main] = "wait"]
    /\ c' = [c EXCEPT ![Main] = NilCommit]
    /\ nparents' = 0

\* The callback returns nil: ForEach goes on to the next commit.
WalkContinues ==
    /\ pc' = [pc EXCEPT ![Main] = "walk"]
    /\ c' = [c EXCEPT ![Main] = NilCommit]
    /\ nparents' = 0

\* ForEach takes the next commit of the iterator and calls the callback on it,
\* lines 122-151: the budget gate, the allowlist, the root test, the first parent.
WalkNext ==
    /\ ~crashed /\ pc[Main] = "walk"
    /\ \/ /\ yielded = logLen
          /\ WalkEnds(nil, "exhausted")
          /\ UNCHANGED <<Opts, Allowlist, entry, cancel, deferred, cancelCalls,
                         deadline, units, pi, bundle, patch, mode, refs, ri, cc,
                         semaphore, wg, logLen, yielded, entered, inlined, submitted,
                         faulted, panicked, Commits, times, ret, crashed, calls,
                         output, stagedFiles>>
       \/ /\ WalkEnds("ErrIter", "error")
          /\ UNCHANGED <<Opts, Allowlist, entry, cancel, deferred, cancelCalls,
                         deadline, units, pi, bundle, patch, mode, refs, ri, cc,
                         semaphore, wg, logLen, yielded, entered, inlined, submitted,
                         faulted, panicked, Commits, times, ret, crashed, calls,
                         output, stagedFiles>>
       \/ /\ yielded < logLen
          /\ yielded' = yielded + 1
          /\ LET h == yielded + 1 IN
             \/ /\ timeoutReached
                /\ WalkEnds(nil, "timeout")
                /\ UNCHANGED <<Opts, Allowlist, entry, cancel, deferred, cancelCalls,
                               deadline, units, pi, bundle, patch, mode, refs, ri, cc,
                               semaphore, wg, logLen, entered, inlined, submitted,
                               faulted, panicked, Commits, times, ret, crashed, calls,
                               output, stagedFiles>>
             \/ /\ ~timeoutReached /\ depthReached(cc)
                /\ WalkEnds(nil, "depth")
                /\ UNCHANGED <<Opts, Allowlist, entry, cancel, deferred, cancelCalls,
                               deadline, units, pi, bundle, patch, mode, refs, ri, cc,
                               semaphore, wg, logLen, entered, inlined, submitted,
                               faulted, panicked, Commits, times, ret, crashed, calls,
                               output, stagedFiles>>
             \/ /\ ~timeoutReached /\ ~depthReached(cc)
                /\ isCommitAllowListed(h, Allowlist)
                /\ WalkContinues
                /\ UNCHANGED <<Opts, Allowlist, entry, cancel, deferred, cancelCalls,
                               deadline, units, pi, bundle, patch, mode, refs, ri, cc,
                               semaphore, wg, err, logLen, stop, entered, inlined,
                               submitted, faulted, panicked, Commits, times, firstErr,
                               ret, crashed, calls, output, stagedFiles>>
             \/ /\ ~timeoutReached /\ ~depthReached(cc)
                /\ ~isCommitAllowListed(h, Allowlist)
                /\ cc' = cc + 1
                /\ entered' = entered \cup {h}
                /\ \/ /\ nparents' = 0
                      /\ inlined' = inlined \cup {h}
                      /\ c' = [c EXCEPT ![Main] = CommitObject(h)]
                      /\ pc' = [pc EXCEPT ![Main] = "files"]
                      /\ UNCHANGED <<Opts, Allowlist, entry, cancel, deferred,
                                     cancelCalls, deadline, units, pi, bundle, patch,
                                     mode, refs, ri, semaphore, wg, err, logLen, stop,
                                     submitted, faulted, panicked, Commits, times,
                                     firstErr, ret, crashed, calls, output,
                                     stagedFiles>>
                   \/ /\ WalkEnds("ErrParent", "error")
                      /\ UNCHANGED <<Opts, Allowlist, entry, cancel, deferred,
                                     cancelCalls, deadline, units, pi, bundle, patch,
                                     mode, refs, ri, semaphore, wg, logLen, inlined,
                                     submitted, faulted, panicked, Commits, times, ret,
                                     crashed, calls, output, stagedFiles>>
                   \/ /\ \E np \in 1..MaxUnits : nparents' = np
                      /\ c' = [c EXCEPT ![Main] = CommitObject(h)]
                      /\ pc' = [pc EXCEPT ![Main] = "patch"]
                      /\ UNCHANGED <<Opts, Allowlist, entry, cancel, deferred,
                                     cancelCalls, deadline, units, pi, bundle, patch,
                                     mode, refs, ri, semaphore, wg, err, logLen, stop,
                                     inlined, submitted, faulted, panicked, Commits,
                                     times, firstErr, ret, crashed, calls, output,
                                     stagedFiles>>

\* The callback, lines 153-176: the second poll of the deadline, the patch
\* against the first parent under the recover, wg.Add(1).
GenPatch ==
    /\ ~crashed /\ pc[Main] = "patch"
    /\ \/ /\ timeoutReached
          /\ WalkContinues
          /\ UNCHANGED <<Opts, Allowlist, entry, cancel, deferred, cancelCalls,
                         deadline, units, pi, bundle, patch, mode, refs, ri, cc,
                         semaphore, wg, err, logLen, yielded, stop, entered, inlined,
                         submitted, faulted, panicked, Commits, times, firstErr, ret,
                         crashed, calls, output, stagedFiles>>
       \/ /\ ~timeoutReached
          /\ faulted' = faulted \cup {c[Main].Hash}
          /\ WalkContinues
          /\ UNCHANGED <<Opts, Allowlist, entry, cancel, deferred, cancelCalls,
                         deadline, units, pi, bundle, patch, mode, refs, ri, cc,
                         semaphore, wg, err, logLen, yielded, stop, entered, inlined,
                         submitted, panicked, Commits, times, firstErr, ret, crashed,
                         calls, output, stagedFiles>>
       \/ /\ ~timeoutReached
          /\ \/ /\ patch' = [patch EXCEPT ![Main] = "ok"]
                /\ faulted' = faulted
             \/ /\ patch' = [patch EXCEPT ![Main] = "nil"]
                /\ faulted' = faulted \cup {c[Main].Hash}
          /\ times' = [times EXCEPT !.PatchTime = @ + 1]
          /\ wg' = wg + 1
          /\ pc' = [pc EXCEPT ![Main] = "acquire"]
          /\ UNCHANGED <<Opts, Allowlist, entry, cancel, deferred, cancelCalls,
                         deadline, c, nparents, units, pi, bundle, mode, refs, ri, cc,
                         semaphore, err, logLen, yielded, stop, entered, inlined,
                         submitted, panicked, Commits, firstErr, ret, crashed, calls,
                         output, stagedFiles>>

\* The callback, lines 177-189: take a slot (blocking while the channel is full),
\* start the worker, stop the walk at CommitTo.
Submit ==
    /\ ~crashed /\ pc[Main] = "acquire"
    /\ SemaphoreHasRoom
    /\ LET h == c[Main].Hash IN
       /\ semaphore' = semaphore + 1
       /\ submitted' = submitted \cup {h}
       /\ patch' = [patch EXCEPT ![h] = patch[Main], ![Main] = "none"]
       /\ c' = [c EXCEPT ![h] = c[Main], ![Main] = NilCommit]
       /\ nparents' = 0
       /\ IF String(h) = Opts.CommitTo
          THEN /\ pc' = [pc EXCEPT ![h] = "scanPatch", ![Main] = "wait"]
               /\ err' = nil
               /\ stop' = "commitTo"
          ELSE /\ pc' = [pc EXCEPT ![h] = "scanPatch", ![Main] = "walk"]
               /\ UNCHANGED <<err, stop>>
    /\ UNCHANGED <<Opts, Allowlist, entry, cancel, deferred, cancelCalls, deadline,
                   units, pi, bundle, mode, refs, ri, cc, wg, logLen, yielded, entered,
                   inlined, faulted, panicked, Commits, times, firstErr, ret, crashed,
                   calls, output, stagedFiles>>

\* The worker's deferred function, lines 179-182, after scanPatch returned: the
\* receive from the semaphore, then wg.Done().
WorkerDone(t) ==
    /\ ~crashed /\ t \in Workers
    /\ \/ /\ pc[t] = "deferred"
          /\ semaphore' = semaphore - 1
          /\ pc' = [pc EXCEPT ![t] = "released"]
          /\ UNCHANGED <<Opts, Allowlist, entry, cancel, deferred, cancelCalls,
                         deadline, c, nparents, units, pi, bundle, patch, mode, refs,
                         ri, cc, wg, err, logLen, yielded, stop, entered, inlined,
                         submitted, faulted, panicked, Commits, times, firstErr, ret,
                         crashed, calls, output, stagedFiles>>
       \/ /\ pc[t] = "released"
          /\ wg' = wg - 1
          /\ pc' = [pc EXCEPT ![t] = "exited"]
          /\ c' = [c EXCEPT ![t] = NilCommit]
          /\ UNCHANGED <<Opts, Allowlist, entry, cancel, deferred, cancelCalls,
                         deadline, nparents, units, pi, bundle, patch, mode, refs, ri,
                         cc, semaphore, err, logLen, yielded, stop, entered, inlined,
                         submitted, faulted, panicked, Commits, times, firstErr, ret,
                         crashed, calls, output, stagedFiles>>

\* Mutant of Wait: the commit counter is not updated.
WaitForgetsCommits ==
    /\ ~crashed /\ pc[Main] = "wait"
    /\ wg = 0
    /\ times' = [times EXCEPT !.ScanTime = @ + 1]
    /\ Commits' = Commits
    /\ pc' = [pc EXCEPT ![Main] = "done"]
    /\ ret' = nil
    /\ cancelCalls' = IF deferred THEN cancelCalls + 1 ELSE cancelCalls
    /\ UNCHANGED <<Opts, Allowlist, entry, cancel, deferred, deadline, c, nparents,
                   units, pi, bundle, patch, mode, refs, ri, cc, semaphore, wg, err,
                   logLen, yielded, stop, entered, inlined, submitted, faulted,
                   panicked, firstErr, crashed, calls, output, stagedFiles>>

\* Mutant of Wait: Scan does not wait for the workers.
WaitWithoutDrain ==
    /\ ~crashed /\ pc[Main] = "wait"
    /\ times' = [times EXCEPT !.ScanTime = @ + 1]
    /\ Commits' = Commits + cc
    /\ pc' = [pc EXCEPT ![Main] = "done"]
    /\ ret' = nil
    /\ cancelCalls' = IF deferred THEN cancelCalls + 1 ELSE cancelCalls
    /\ UNCHANGED <<Opts, Allowlist, entry, cancel, deferred, deadline, c, nparents,
                   units, pi, bundle, patch, mode, refs, ri, cc, semaphore, wg, err,
                   logLen, yielded, stop, entered, inlined, submitted, faulted,
                   panicked, firstErr, crashed, calls, output, stagedFiles>>

\* Scan, lines 192-195: the drain, the scan time, the commit counter.
Wait ==
    /\ ~crashed /\ pc[Main] = "wait"
    /\ wg = 0
    /\ times' = [times EXCEPT !.ScanTime = @ + 1]
    /\ Commits' = Commits + cc
    /\ pc' = [pc EXCEPT ![Main] = "done"]
    /\ ret' = nil
    /\ cancelCalls' = IF deferred THEN cancelCalls + 1 ELSE cancelCalls
    /\ UNCHANGED <<Opts, Allowlist, entry, cancel, deferred, deadline, c, nparents,
                   units, pi, bundle, patch, mode, refs, ri, cc, semaphore, wg, err,
                   logLen, yielded, stop, entered, inlined, submitted, faulted,
                   panicked, firstErr, crashed, calls, output, stagedFiles>>

\* The deadline passes.
DeadlinePasses ==
    /\ ~crashed /\ deadline = "armed"
    /\ pc[Main] # "done"
    /\ deadline' = "passed"
    /\ UNCHANGED <<Opts, Allowlist, entry, cancel, deferred, cancelCalls, pc, c,
                   nparents, units, pi, bundle, patch, mode, refs, ri, cc, semaphore,
                   wg, err, logLen, yielded, stop, entered, inlined, submitted,
                   faulted, panicked, Commits, times, firstErr, ret, crashed, calls,
                   output, stagedFiles>>

\* Mutant of CommitReturns: the list modes go on after an error of scanCommit.
CommitReturnsGoesOn(e) ==
    /\ firstErr' = FirstErr(e)
    /\ c' = [c EXCEPT ![Main] = NilCommit]
    /\ nparents' = 0
    /\ pi' = 0
    /\ IF \/ mode \in {"Commit", "FilesAtCommit"}
          \/ (mode = "Commits" /\ ri = Len(refs))
       THEN /\ pc' = [pc EXCEPT ![Main] = "done"]
            /\ ret' = e
            /\ cancelCalls' = IF deferred THEN cancelCalls + 1 ELSE cancelCalls
            /\ ri' = ri
       ELSE /\ pc' = [pc EXCEPT ![Main] = "scanCommit"]
            /\ ri' = ri + 1
            /\ UNCHANGED <<ret, cancelCalls>>

\* ------------------------------------------------------------ scanCommit
\* scanCommit returns e to Scan, lines 81-107: the single-commit modes return
\* it, the list modes return an error and go on to the next reference otherwise.
CommitReturns(e) ==
    /\ firstErr' = FirstErr(e)
    /\ c' = [c EXCEPT ![Main] = NilCommit]
    /\ nparents' = 0
    /\ pi' = 0
    /\ IF \/ e # nil
          \/ mode \in {"Commit", "FilesAtCommit"}
          \/ (mode = "Commits" /\ ri = Len(refs))
       THEN /\ pc' = [pc EXCEPT ![Main] = "done"]
            /\ ret' = e
            /\ cancelCalls' = IF deferred THEN cancelCalls + 1 ELSE cancelCalls
            /\ ri' = ri
       ELSE /\ pc' = [pc EXCEPT ![Main] = "scanCommit"]
            /\ ri' = ri + 1
            /\ UNCHANGED <<ret, cancelCalls>>

\* Mutant of NextRefs: the reference of any option that is set.
NextRefsOfAnyOption ==
    {r \in {Opts.Commit, Opts.FilesAtCommit} : r # ""}
    \cup {Opts.Commits[i] : i \in 1..Len(Opts.Commits)}

\* The reference Scan passes to scanCommit next: the option's value, the next
\* token of the list (line 86), or the next line of the file (line 101).
NextRefs ==
    IF mode = "CommitsFile"
    THEN IF ri <= MaxUnits THEN RefTexts ELSE {}
    ELSE {refs[ri]}

\* The scanner of the commits file is at the end of the file: Scan returns nil
\* (lines 101, 107).
CommitsFileEnds ==
    /\ ~crashed /\ pc[Main] = "scanCommit"
    /\ mode = "CommitsFile"
    /\ ScanReturn(nil)
    /\ UNCHANGED <<Opts, Allowlist, entry, cancel, deferred, deadline, c, nparents,
                   units, pi, bundle, patch, mode, refs, ri, cc, semaphore, wg, err,
                   logLen, yielded, stop, entered, inlined, submitted, faulted,
                   panicked, Commits, times, crashed, calls, output, stagedFiles>>

\* scanCommit, lines 436-451, and the entry of the scanner it is given
\* (scanCommitPatches, lines 458-463, or scanFilesAtCommit).
ScanCommit ==
    /\ ~crashed /\ pc[Main] = "scanCommit"
    /\ \E commit \in NextRefs :
       LET h == IF commit = Latest THEN HeadHash ELSE NewHash(commit) IN
       \/ /\ commit = Latest
          /\ calls' = Append(calls, [commit |-> commit, at |-> "ErrHead"])
          /\ CommitReturns("ErrHead")
          /\ UNCHANGED <<Opts, Allowlist, entry, cancel, deferred, deadline, units,
                         bundle, patch, mode, refs, cc, semaphore, wg, err, logLen,
                         yielded, stop, entered, inlined, submitted, faulted, panicked,
                         Commits, times, crashed, output, stagedFiles>>
       \/ /\ h \notin Hashes
          /\ Commits' = Commits + 1
          /\ calls' = Append(calls, [commit |-> commit, at |-> "ErrCommitObject"])
          /\ CommitReturns("ErrCommitObject")
          /\ UNCHANGED <<Opts, Allowlist, entry, cancel, deferred, deadline, units,
                         bundle, patch, mode, refs, cc, semaphore, wg, err, logLen,
                         yielded, stop, entered, inlined, submitted, faulted, panicked,
                         times, crashed, output, stagedFiles>>
       \/ /\ h \in Hashes
          /\ Commits' = Commits + 1
          /\ calls' = Append(calls, [commit |-> commit, at |-> "entered"])
          /\ c' = [c EXCEPT ![Main] = CommitObject(h)]
          /\ pi' = 0
          /\ \E np \in 0..MaxUnits :
                /\ nparents' = np
                /\ pc' = [pc EXCEPT ![Main] =
                            IF mode = "FilesAtCommit" \/ np = 0 THEN "files" ELSE "parent"]
          /\ UNCHANGED <<Opts, Allowlist, entry, cancel, deferred, cancelCalls,
                         deadline, units, bundle, patch, mode, refs, ri, cc, semaphore,
                         wg, err, logLen, yielded, stop, entered, inlined, submitted,
                         faulted, panicked, times, firstErr, ret, crashed, output,
                         stagedFiles>>

\* scanCommitPatches, lines 465-490: the next parent, its patch under the
\* recover, scanPatch on it.
NextParent ==
    /\ ~crashed /\ pc[Main] = "parent"
    /\ \/ /\ pi = nparents
          /\ CommitReturns(nil)
          /\ UNCHANGED <<Opts, Allowlist, entry, cancel, deferred, deadline, units,
                         bundle, patch, mode, refs, cc, semaphore, wg, err, logLen,
                         yielded, stop, entered, inlined, submitted, faulted, panicked,
                         Commits, times, crashed, calls, output, stagedFiles>>
       \/ /\ pi < nparents
          /\ CommitReturns("ErrParent")
          /\ UNCHANGED <<Opts, Allowlist, entry, cancel, deferred, deadline, units,
                         bundle, patch, mode, refs, cc, semaphore, wg, err, logLen,
                         yielded, stop, entered, inlined, submitted, faulted, panicked,
                         Commits, times, crashed, calls, output, stagedFiles>>
       \/ /\ pi < nparents
          /\ timeoutReached
          /\ pi' = pi + 1
          /\ UNCHANGED <<Opts, Allowlist, entry, cancel, deferred, cancelCalls,
                         deadline, pc, c, nparents, units, bundle, patch, mode, refs,
                         ri, cc, semaphore, wg, err, logLen, yielded, stop, entered,
                         inlined, submitted, faulted, panicked, Commits, times,
                         firstErr, ret, crashed, calls, output, stagedFiles>>
       \/ /\ pi < nparents
          /\ ~timeoutReached
          /\ pi' = pi + 1
          /\ UNCHANGED <<Opts, Allowlist, entry, cancel, deferred, cancelCalls,
                         deadline, pc, c, nparents, units, bundle, patch, mode, refs,
                         ri, cc, semaphore, wg, err, logLen, yielded, stop, entered,
                         inlined, submitted, faulted, panicked, Commits, times,
                         firstErr, ret, crashed, calls, output, stagedFiles>>
       \/ /\ pi < nparents
          /\ ~timeoutReached
          /\ CommitReturns("ErrPatch")
          /\ UNCHANGED <<Opts, Allowlist, entry, cancel, deferred, deadline, units,
                         bundle, patch, mode, refs, cc, semaphore, wg, err, logLen,
                         yielded, stop, entered, inlined, submitted, faulted, panicked,
                         Commits, times, crashed, calls, output, stagedFiles>>
       \/ /\ pi < nparents
          /\ ~timeoutReached
          /\ pi' = pi + 1
          /\ times' = [times EXCEPT !.PatchTime = @ + 1]
          /\ patch' = [patch EXCEPT ![Main] = "ok"]
          /\ pc' = [pc EXCEPT ![Main] = "scanPatch"]
          /\ UNCHANGED <<Opts, Allowlist, entry, cancel, deferred, cancelCalls,
                         deadline, c, nparents, units, bundle, mode, refs, ri, cc,
                         semaphore, wg, err, logLen, yielded, stop, entered, inlined,
                         submitted, faulted, panicked, Commits, firstErr, ret, crashed,
                         calls, output, stagedFiles>>

\* Mutant of FilesReturns: scanCommitPatches drops the error of scanFilesAtCommit.
FilesReturnsErrorDropped(e) ==
    /\ units' = [units EXCEPT ![Main] = 0]
    /\ firstErr' = FirstErr(e)
    /\ CASE mode = "walk" ->
              /\ err' = e
              /\ stop' = IF e # nil THEN "error" ELSE stop
              /\ pc' = [pc EXCEPT ![Main] = IF e # nil THEN "wait" ELSE "walk"]
              /\ c' = [c EXCEPT ![Main] = NilCommit]
              /\ UNCHANGED <<ret, cancelCalls>>
         [] mode = "FilesAtCommit" ->
              /\ pc' = [pc EXCEPT ![Main] = "done"]
              /\ ret' = e
              /\ cancelCalls' = IF deferred THEN cancelCalls + 1 ELSE cancelCalls
              /\ c' = [c EXCEPT ![Main] = NilCommit]
              /\ UNCHANGED <<err, stop>>
         [] OTHER ->
              /\ pc' = [pc EXCEPT ![Main] = "parent"]
              /\ UNCHANGED <<err, stop, ret, cancelCalls, c>>

\* ------------------------------------------------------------ scanFilesAtCommit
\* scanFilesAtCommit returns e to its caller: the walk's callback (lines
\* 135-139), scanCommit (line 450) or scanCommitPatches (lines 459-463).
FilesReturns(e) ==
    /\ units' = [units EXCEPT ![Main] = 0]
    /\ firstErr' = FirstErr(e)
    /\ CASE mode = "walk" ->
              /\ err' = e
              /\ stop' = IF e # nil THEN "error" ELSE stop
              /\ pc' = [pc EXCEPT ![Main] = IF e # nil THEN "wait" ELSE "walk"]
              /\ c' = [c EXCEPT ![Main] = NilCommit]
              /\ UNCHANGED <<ret, cancelCalls>>
         [] mode = "FilesAtCommit" \/ (mode # "walk" /\ e # nil) ->
              /\ pc' = [pc EXCEPT ![Main] = "done"]
              /\ ret' = e
              /\ cancelCalls' = IF deferred THEN cancelCalls + 1 ELSE cancelCalls
              /\ c' = [c EXCEPT ![Main] = NilCommit]
              /\ UNCHANGED <<err, stop>>
         [] OTHER ->
              /\ pc' = [pc EXCEPT ![Main] = "parent"]
              /\ UNCHANGED <<err, stop, ret, cancelCalls, c>>

\* scanFilesAtCommit, lines 498-501: c.Files().
FilesStart ==
    /\ ~crashed /\ pc[Main] = "files"
    /\ \/ /\ FilesReturns("ErrFiles")
          /\ UNCHANGED <<Opts, Allowlist, entry, cancel, deferred, deadline, nparents,
                         pi, bundle, patch, mode, refs, ri, cc, semaphore, wg, logLen,
                         yielded, entered, inlined, submitted, faulted, panicked,
                         Commits, times, crashed, calls, output, stagedFiles>>
       \/ /\ pc' = [pc EXCEPT ![Main] = "file"]
          /\ units' = [units EXCEPT ![Main] = 0]
          /\ UNCHANGED <<Opts, Allowlist, entry, cancel, deferred, cancelCalls,
                         deadline, c, nparents, pi, bundle, patch, mode, refs, ri, cc,
                         semaphore, wg, err, logLen, yielded, stop, entered, inlined,
                         submitted, faulted, panicked, Commits, times, firstErr, ret,
                         crashed, calls, output, stagedFiles>>

\* scanFilesAtCommit, lines 503-524: the iterator's next file and the callback.
NextFile ==
    /\ ~crashed /\ pc[Main] = "file"
    /\ \/ /\ FilesReturns(nil)
          /\ UNCHANGED <<Opts, Allowlist, entry, cancel, deferred, deadline, nparents,
                         pi, bundle, patch, mode, refs, ri, cc, semaphore, wg, logLen,
                         yielded, entered, inlined, submitted, faulted, panicked,
                         Commits, times, crashed, calls, output, stagedFiles>>
       \/ /\ units[Main] < MaxUnits
          /\ \E bin \in BOOLEAN :
                /\ bin \/ timeoutReached
                /\ units' = [units EXCEPT ![Main] = @ + 1]
          /\ UNCHANGED <<Opts, Allowlist, entry, cancel, deferred, cancelCalls,
                         deadline, pc, c, nparents, pi, bundle, patch, mode, refs, ri,
                         cc, semaphore, wg, err, logLen, yielded, stop, entered,
                         inlined, submitted, faulted, panicked, Commits, times,
                         firstErr, ret, crashed, calls, output, stagedFiles>>
       \/ /\ units[Main] < MaxUnits
          /\ ~timeoutReached
          /\ FilesReturns("ErrIsBinary")
          /\ UNCHANGED <<Opts, Allowlist, entry, cancel, deferred, deadline, nparents,
                         pi, bundle, patch, mode, refs, ri, cc, semaphore, wg, logLen,
                         yielded, entered, inlined, submitted, faulted, panicked,
                         Commits, times, crashed, calls, output, stagedFiles>>
       \/ /\ units[Main] < MaxUnits
          /\ ~timeoutReached
          /\ FilesReturns("ErrContents")
          /\ UNCHANGED <<Opts, Allowlist, entry, cancel, deferred, deadline, nparents,
                         pi, bundle, patch, mode, refs, ri, cc, semaphore, wg, logLen,
                         yielded, entered, inlined, submitted, faulted, panicked,
                         Commits, times, crashed, calls, output, stagedFiles>>
       \/ /\ units[Main] < MaxUnits
          /\ ~timeoutReached
          /\ units' = [units EXCEPT ![Main] = @ + 1]
          /\ bundle' = [bundle EXCEPT ![Main] =
                          Bundle(c[Main], commitScan, Add, FALSE, timeoutReached)]
          /\ pc' = [pc EXCEPT ![Main] = "check"]
          /\ UNCHANGED <<Opts, Allowlist, entry, cancel, deferred, cancelCalls,
                         deadline, c, nparents, pi, patch, mode, refs, ri, cc,
                         semaphore, wg, err, logLen, yielded, stop, entered, inlined,
                         submitted, faulted, panicked, Commits, times, firstErr, ret,
                         crashed, calls, output, stagedFiles>>

\* ------------------------------------------------------------ scanPatch
\* chunk.Content(): the text of a chunk of this type, its lines marked as the
\* unified diff marks them.
ChunkContent(type) ==
    CASE type = Add -> "+line"
      [] type = Delete -> "-line"
      [] OTHER -> " line"

\* Mutant of Eligible: the Deletion option is not consulted.
EligibleAnyChange(type) == type = Add \/ type = Delete

\* A hunk scanPatch hands to CheckRules (line 414).
Eligible(type) == type = Add \/ (Opts.Deletion /\ type = Delete)

\* scanPatch returns: to scanCommitPatches on Main (line 489), to the
\* deferred function of a worker.
PatchReturns(t) ==
    /\ pc' = [pc EXCEPT ![t] = IF t = Main THEN "parent" ELSE "deferred"]
    /\ patch' = [patch EXCEPT ![t] = "none"]
    /\ units' = [units EXCEPT ![t] = 0]

\* scanPatch, lines 401-405: the bundle is built, patch.String() renders the patch.
ScanPatchStart(t) ==
    /\ ~crashed /\ pc[t] = "scanPatch"
    /\ patch[t] = "ok"
    /\ pc' = [pc EXCEPT ![t] = "filePatch"]
    /\ units' = [units EXCEPT ![t] = 0]
    /\ UNCHANGED <<Opts, Allowlist, entry, cancel, deferred, cancelCalls, deadline, c,
                   nparents, pi, bundle, patch, mode, refs, ri, cc, semaphore, wg, err,
                   logLen, yielded, stop, entered, inlined, submitted, faulted,
                   panicked, Commits, times, firstErr, ret, crashed, calls, output,
                   stagedFiles>>

\* patch.String() panics on Main, inside scanCommitPatches: the recover of
\* lines 466-473 takes it and the callback returns nil.
ScanPatchPanicMain ==
    /\ ~crashed /\ pc[Main] = "scanPatch"
    /\ PatchReturns(Main)
    /\ UNCHANGED <<Opts, Allowlist, entry, cancel, deferred, cancelCalls, deadline, c,
                   nparents, pi, bundle, mode, refs, ri, cc, semaphore, wg, err,
                   logLen, yielded, stop, entered, inlined, submitted, faulted,
                   panicked, Commits, times, firstErr, ret, crashed, calls, output,
                   stagedFiles>>

\* patch.String() panics in a worker (always, on a nil patch): the deferred
\* function of lines 179-182 runs, it does not recover, and the panic ends the
\* process.
WorkerPanics(t) ==
    /\ ~crashed /\ t \in Workers /\ pc[t] = "scanPatch"
    /\ semaphore' = semaphore - 1
    /\ wg' = wg - 1
    /\ panicked' = panicked \cup {t}
    /\ pc' = [pc EXCEPT ![t] = "panicked"]
    /\ crashed' = TRUE
    /\ UNCHANGED <<Opts, Allowlist, entry, cancel, deferred, cancelCalls, deadline, c,
                   nparents, units, pi, bundle, patch, mode, refs, ri, cc, err, logLen,
                   yielded, stop, entered, inlined, submitted, faulted, Commits, times,
                   firstErr, ret, calls, output, stagedFiles>>

\* scanPatch, lines 406-412: the next file patch, the deadline, the binary test.
NextFilePatch(t) ==
    /\ ~crashed /\ pc[t] = "filePatch"
    /\ \/ /\ PatchReturns(t)
          /\ UNCHANGED <<Opts, Allowlist, entry, cancel, deferred, cancelCalls,
                         deadline, c, nparents, pi, bundle, mode, refs, ri, cc,
                         semaphore, wg, err, logLen, yielded, stop, entered, inlined,
                         submitted, faulted, panicked, Commits, times, firstErr, ret,
                         crashed, calls, output, stagedFiles>>
       \/ /\ units[t] < MaxUnits
          /\ timeoutReached
          /\ PatchReturns(t)
          /\ UNCHANGED <<Opts, Allowlist, entry, cancel, deferred, cancelCalls,
                         deadline, c, nparents, pi, bundle, mode, refs, ri, cc,
                         semaphore, wg, err, logLen, yielded, stop, entered, inlined,
                         submitted, faulted, panicked, Commits, times, firstErr, ret,
                         crashed, calls, output, stagedFiles>>
       \/ /\ units[t] < MaxUnits
          /\ ~timeoutReached
          /\ units' = [units EXCEPT ![t] = @ + 1]
          /\ UNCHANGED <<Opts, Allowlist, entry, cancel, deferred, cancelCalls,
                         deadline, pc, c, nparents, pi, bundle, patch, mode, refs, ri,
                         cc, semaphore, wg, err, logLen, yielded, stop, entered,
                         inlined, submitted, faulted, panicked, Commits, times,
                         firstErr, ret, crashed, calls, output, stagedFiles>>
       \/ /\ units[t] < MaxUnits
          /\ ~timeoutReached
          /\ units' = [units EXCEPT ![t] = @ + 1]
          /\ pc' = [pc EXCEPT ![t] = "chunk"]
          /\ UNCHANGED <<Opts, Allowlist, entry, cancel, deferred, cancelCalls,
                         deadline, c, nparents, pi, bundle, patch, mode, refs, ri, cc,
                         semaphore, wg, err, logLen, yielded, stop, entered, inlined,
                         submitted, faulted, panicked, Commits, times, firstErr, ret,
                         crashed, calls, output, stagedFiles>>

\* scanPatch, lines 413-429: the next chunk of the file patch.
NextChunk(t) ==
    /\ ~crashed /\ pc[t] = "chunk"
    /\ \/ /\ pc' = [pc EXCEPT ![t] = "filePatch"]
          /\ UNCHANGED <<Opts, Allowlist, entry, cancel, deferred, cancelCalls,
                         deadline, c, nparents, units, pi, bundle, patch, mode, refs,
                         ri, cc, semaphore, wg, err, logLen, yielded, stop, entered,
                         inlined, submitted, faulted, panicked, Commits, times,
                         firstErr, ret, crashed, calls, output, stagedFiles>>
       \/ /\ units[t] < MaxUnits
          /\ \E type \in {Equal, Add, Delete} :
                /\ units' = [units EXCEPT ![t] = @ + 1]
                /\ IF Eligible(type)
                   THEN /\ bundle' = [bundle EXCEPT ![t] =
                                        [Bundle(c[t], patchScan, type, FALSE,
                                                timeoutReached)
                                            EXCEPT !.Content = ChunkContent(type)]]
                        /\ pc' = [pc EXCEPT ![t] = "check"]
                   ELSE UNCHANGED <<bundle, pc>>
          /\ UNCHANGED <<Opts, Allowlist, entry, cancel, deferred, cancelCalls,
                         deadline, c, nparents, pi, patch, mode, refs, ri, cc,
                         semaphore, wg, err, logLen, yielded, stop, entered, inlined,
                         submitted, faulted, panicked, Commits, times, firstErr, ret,
                         crashed, calls, output, stagedFiles>>

\* ------------------------------------------------------------ CheckRules
\* Where the caller of CheckRules goes on after it returns.
AfterCheck(t) ==
    CASE bundle[t].scanType = patchScan -> "chunk"
      [] bundle[t].scanType = commitScan -> "file"
      [] OTHER -> IF mode = "empty" THEN "emptyFile" ELSE "stagedFile"

\* repo.CheckRules(bundle) returns.
CheckRulesReturns(t) ==
    /\ ~crashed /\ pc[t] = "check"
    /\ pc' = [pc EXCEPT ![t] = AfterCheck(t)]
    /\ bundle' = [bundle EXCEPT ![t] = NoBundle]
    /\ UNCHANGED <<Opts, Allowlist, entry, cancel, deferred, cancelCalls, deadline, c,
                   nparents, units, pi, patch, mode, refs, ri, cc, semaphore, wg, err,
                   logLen, yielded, stop, entered, inlined, submitted, faulted,
                   panicked, Commits, times, firstErr, ret, crashed, calls, output,
                   stagedFiles>>

\* ------------------------------------------------------------ scanUncommitted
\* scanUncommitted or scanEmpty returns e: nothing is deferred.
UncommittedReturns(e) ==
    /\ pc' = [pc EXCEPT ![Main] = "done"]
    /\ ret' = e
    /\ firstErr' = FirstErr(e)
    /\ units' = [units EXCEPT ![Main] = 0]
    /\ c' = [c EXCEPT ![Main] = NilCommit]

\* scanUncommitted, lines 233-244: the per-repo configuration, then the timeout.
UncommittedSetup ==
    /\ ~crashed /\ pc[Main] = "scanUncommitted"
    /\ \/ /\ Opts.RepoConfig
          /\ UncommittedReturns("ErrConfig")
          /\ UNCHANGED <<Opts, Allowlist, entry, cancel, deferred, cancelCalls,
                         deadline, nparents, pi, bundle, patch, mode, refs, ri, cc,
                         semaphore, wg, err, logLen, yielded, stop, entered, inlined,
                         submitted, faulted, panicked, Commits, times, crashed, calls,
                         output, stagedFiles>>
       \/ /\ setupTimeout(Opts.Timeout).err # nil
          /\ IF Opts.RepoConfig
             THEN \E cfg \in SUBSET Hashes : Allowlist' = cfg
             ELSE UNCHANGED Allowlist
          /\ UncommittedReturns(setupTimeout(Opts.Timeout).err)
          /\ UNCHANGED <<Opts, entry, cancel, deferred, cancelCalls, deadline,
                         nparents, pi, bundle, patch, mode, refs, ri, cc, semaphore,
                         wg, err, logLen, yielded, stop, entered, inlined, submitted,
                         faulted, panicked, Commits, times, crashed, calls, output,
                         stagedFiles>>
       \/ /\ setupTimeout(Opts.Timeout).err = nil
          /\ IF Opts.RepoConfig
             THEN \E cfg \in SUBSET Hashes : Allowlist' = cfg
             ELSE UNCHANGED Allowlist
          /\ cancel' = setupTimeout(Opts.Timeout).cancel
          /\ deadline' = setupTimeout(Opts.Timeout).deadline
          /\ pc' = [pc EXCEPT ![Main] = "head"]
          /\ UNCHANGED <<Opts, entry, deferred, cancelCalls, c, nparents, units, pi,
                         bundle, patch, mode, refs, ri, cc, semaphore, wg, err, logLen,
                         yielded, stop, entered, inlined, submitted, faulted, panicked,
                         Commits, times, firstErr, ret, crashed, calls, output,
                         stagedFiles>>

\* scanUncommitted, lines 246-276: HEAD, its commit emptied into the commit of
\* the staged changes, its tree, the worktree, the staged files.
UncommittedHead ==
    /\ ~crashed /\ pc[Main] = "head"
    /\ \/ /\ mode' = "empty"
          /\ pc' = [pc EXCEPT ![Main] = "scanEmpty"]
          /\ UNCHANGED <<Opts, Allowlist, entry, cancel, deferred, cancelCalls,
                         deadline, c, nparents, units, pi, bundle, patch, refs, ri, cc,
                         semaphore, wg, err, logLen, yielded, stop, entered, inlined,
                         submitted, faulted, panicked, Commits, times, firstErr, ret,
                         crashed, calls, output, stagedFiles>>
       \/ /\ \E e \in {"ErrHead", "ErrCommitObject", "ErrTree", "ErrWorktree"} :
                UncommittedReturns(e)
          /\ UNCHANGED <<Opts, Allowlist, entry, cancel, deferred, cancelCalls,
                         deadline, nparents, pi, bundle, patch, mode, refs, ri, cc,
                         semaphore, wg, err, logLen, yielded, stop, entered, inlined,
                         submitted, faulted, panicked, Commits, times, crashed, calls,
                         output, stagedFiles>>
       \/ /\ crashed' = TRUE
          /\ UNCHANGED <<Opts, Allowlist, entry, cancel, deferred, cancelCalls,
                         deadline, pc, c, nparents, units, pi, bundle, patch, mode,
                         refs, ri, cc, semaphore, wg, err, logLen, yielded, stop,
                         entered, inlined, submitted, faulted, panicked, Commits,
                         times, firstErr, ret, calls, output, stagedFiles>>
       \/ /\ mode' = "staged"
          /\ c' = [c EXCEPT ![Main] =
                     [CommitObject(HeadHash) EXCEPT !.Hash = ZeroHash,
                                                    !.Message = "***STAGED CHANGES***",
                                                    !.Name = "", !.Email = "", !.When = 0]]
          /\ units' = [units EXCEPT ![Main] = 0]
          /\ pc' = [pc EXCEPT ![Main] = "stagedFile"]
          /\ UNCHANGED <<Opts, Allowlist, entry, cancel, deferred, cancelCalls,
                         deadline, nparents, pi, bundle, patch, refs, ri, cc,
                         semaphore, wg, err, logLen, yielded, stop, entered, inlined,
                         submitted, faulted, panicked, Commits, times, firstErr, ret,
                         crashed, calls, output, stagedFiles>>

\* scanUncommitted, lines 277-330: the next staged file, and the end of the loop.
NextStaged ==
    /\ ~crashed /\ pc[Main] = "stagedFile"
    /\ \/ /\ times' = [times EXCEPT !.ScanTime = @ + 1]
          /\ UncommittedReturns(nil)
          /\ UNCHANGED <<Opts, Allowlist, entry, cancel, deferred, cancelCalls,
                         deadline, nparents, pi, bundle, patch, mode, refs, ri, cc,
                         semaphore, wg, err, logLen, yielded, stop, entered, inlined,
                         submitted, faulted, panicked, Commits, crashed, calls, output,
                         stagedFiles>>
       \/ /\ units[Main] < MaxUnits
          /\ units' = [units EXCEPT ![Main] = @ + 1]
          /\ UNCHANGED <<Opts, Allowlist, entry, cancel, deferred, cancelCalls,
                         deadline, pc, c, nparents, pi, bundle, patch, mode, refs, ri,
                         cc, semaphore, wg, err, logLen, yielded, stop, entered,
                         inlined, submitted, faulted, panicked, Commits, times,
                         firstErr, ret, crashed, calls, output, stagedFiles>>
       \/ /\ units[Main] < MaxUnits
          /\ \E e \in {"ErrCopy", "ErrContents"} : UncommittedReturns(e)
          /\ UNCHANGED <<Opts, Allowlist, entry, cancel, deferred, cancelCalls,
                         deadline, nparents, pi, bundle, patch, mode, refs, ri, cc,
                         semaphore, wg, err, logLen, yielded, stop, entered, inlined,
                         submitted, faulted, panicked, Commits, times, crashed, calls,
                         output, stagedFiles>>
       \/ /\ units[Main] < MaxUnits
          /\ units' = [units EXCEPT ![Main] = @ + 1]
          /\ \E bin \in BOOLEAN :
                bundle' = [bundle EXCEPT ![Main] =
                             Bundle(c[Main], uncommittedScan, Equal, bin, timeoutReached)]
          /\ pc' = [pc EXCEPT ![Main] = "check"]
          /\ UNCHANGED <<Opts, Allowlist, entry, cancel, deferred, cancelCalls,
                         deadline, c, nparents, pi, patch, mode, refs, ri, cc,
                         semaphore, wg, err, logLen, yielded, stop, entered, inlined,
                         submitted, faulted, panicked, Commits, times, firstErr, ret,
                         crashed, calls, output, stagedFiles>>

\* scanEmpty, lines 199-209: the worktree and its status.
ScanEmpty ==
    /\ ~crashed /\ pc[Main] = "scanEmpty"
    /\ \/ /\ \E e \in {"ErrWorktree", "ErrStatus"} : UncommittedReturns(e)
          /\ UNCHANGED <<Opts, Allowlist, entry, cancel, deferred, cancelCalls,
                         deadline, nparents, pi, bundle, patch, mode, refs, ri, cc,
                         semaphore, wg, err, logLen, yielded, stop, entered, inlined,
                         submitted, faulted, panicked, Commits, times, crashed, calls,
                         output, stagedFiles>>
       \/ /\ units' = [units EXCEPT ![Main] = 0]
          /\ pc' = [pc EXCEPT ![Main] = "emptyFile"]
          /\ UNCHANGED <<Opts, Allowlist, entry, cancel, deferred, cancelCalls,
                         deadline, c, nparents, pi, bundle, patch, mode, refs, ri, cc,
                         semaphore, wg, err, logLen, yielded, stop, entered, inlined,
                         submitted, faulted, panicked, Commits, times, firstErr, ret,
                         crashed, calls, output, stagedFiles>>

\* scanEmpty, lines 210-227: the next file of the status, and the end of the loop.
NextEmpty ==
    /\ ~crashed /\ pc[Main] = "emptyFile"
    /\ \/ /\ times' = [times EXCEPT !.ScanTime = @ + 1]
          /\ UncommittedReturns(nil)
          /\ UNCHANGED <<Opts, Allowlist, entry, cancel, deferred, cancelCalls,
                         deadline, nparents, pi, bundle, patch, mode, refs, ri, cc,
                         semaphore, wg, err, logLen, yielded, stop, entered, inlined,
                         submitted, faulted, panicked, Commits, crashed, calls, output,
                         stagedFiles>>
       \/ /\ units[Main] < MaxUnits
          /\ units' = [units EXCEPT ![Main] = @ + 1]
          /\ UNCHANGED <<Opts, Allowlist, entry, cancel, deferred, cancelCalls,
                         deadline, pc, c, nparents, pi, bundle, patch, mode, refs, ri,
                         cc, semaphore, wg, err, logLen, yielded, stop, entered,
                         inlined, submitted, faulted, panicked, Commits, times,
                         firstErr, ret, crashed, calls, output, stagedFiles>>
       \/ /\ units[Main] < MaxUnits
          /\ UncommittedReturns("ErrCopy")
          /\ UNCHANGED <<Opts, Allowlist, entry, cancel, deferred, cancelCalls,
                         deadline, nparents, pi, bundle, patch, mode, refs, ri, cc,
                         semaphore, wg, err, logLen, yielded, stop, entered, inlined,
                         submitted, faulted, panicked, Commits, times, crashed, calls,
                         output, stagedFiles>>
       \/ /\ units[Main] < MaxUnits
          /\ units' = [units EXCEPT ![Main] = @ + 1]
          /\ \E bin \in BOOLEAN :
                bundle' = [bundle EXCEPT ![Main] =
                             Bundle(emptyCommit, uncommittedScan, Equal, bin, timeoutReached)]
          /\ pc' = [pc EXCEPT ![Main] = "check"]
          /\ UNCHANGED <<Opts, Allowlist, entry, cancel, deferred, cancelCalls,
                         deadline, c, nparents, pi, patch, mode, refs, ri, cc,
                         semaphore, wg, err, logLen, yielded, stop, entered, inlined,
                         submitted, faulted, panicked, Commits, times, firstErr, ret,
                         crashed, calls, output, stagedFiles>>

\* ------------------------------------------------------------ getStagedChanges
\* A text is a sequence of characters: a tab, a line feed, any other character.
TAB == "\t"
LF == "\n"
Chars == {"a", TAB, LF}

Texts == UNION {[1..n -> Chars] : n \in 0..MaxText}

\* strings.Split(s, sep) for a separator of one character: the texts between
\* the separators, one text more than there are separators.
RECURSIVE Split(_, _)
Split(s, sep) ==
    IF \E i \in 1..Len(s) : s[i] = sep
    THEN LET i == CHOOSE k \in 1..Len(s) :
                    s[k] = sep /\ \A j \in 1..(k - 1) : s[j] # sep
         IN <<SubSeq(s, 1, i - 1)>> \o Split(SubSeq(s, i + 1, Len(s)), sep)
    ELSE <<s>>

\* The test of line 386 before fileStatusAndName[1] is read.
HasName(fileStatusAndName) == Len(fileStatusAndName) > 0

\* The loop of lines 381-390 over the lines of the output: the file names
\* appended, or the index out of range at line 387.
RECURSIVE StagedLoop(_, _)
StagedLoop(stagedFilesAndStatus, acc) ==
    IF stagedFilesAndStatus = <<>>
    THEN [stagedFiles |-> acc, panic |-> FALSE]
    ELSE LET fileString == Head(stagedFilesAndStatus)
             fileStatusAndName == Split(fileString, TAB)
         IN IF Len(fileString) # 0 /\ HasName(fileStatusAndName)
            THEN IF Len(fileStatusAndName) < 2
                 THEN [stagedFiles |-> acc, panic |-> TRUE]
                 ELSE StagedLoop(Tail(stagedFilesAndStatus),
                                 Append(acc, fileStatusAndName[2]))
            ELSE StagedLoop(Tail(stagedFilesAndStatus), acc)

\* getStagedChanges on the combined output of the porcelain command.
getStagedChanges(out) == StagedLoop(Split(out, LF), <<>>)

\* The options of a call of getStagedChanges: it reads none.
StagedOpts ==
    [Threads |-> 1, Depth |-> 0, CommitTo |-> "", Deletion |-> FALSE,
     RepoConfig |-> FALSE, Timeout |-> "", Commit |-> "", FilesAtCommit |-> "",
     Commits |-> <<>>, CommitsFile |-> ""]

InitStaged ==
    /\ entry = "getStagedChanges"
    /\ Opts = StagedOpts
    /\ Allowlist = {}
    /\ logLen = 0
    /\ output \in Texts
    /\ InitRest

\* getStagedChanges, lines 366-393: the command fails and log.Fatal ends the
\* process; or its output is parsed, and the index out of range panics.
GetStagedChanges ==
    /\ ~crashed /\ pc[Main] = "getStagedChanges"
    /\ \/ /\ crashed' = TRUE
          /\ pc' = [pc EXCEPT ![Main] = "fatal"]
          /\ UNCHANGED <<Opts, Allowlist, entry, cancel, deferred, cancelCalls,
                         deadline, c, nparents, units, pi, bundle, patch, mode, refs,
                         ri, cc, semaphore, wg, err, logLen, yielded, stop, entered,
                         inlined, submitted, faulted, panicked, Commits, times,
                         firstErr, ret, calls, output, stagedFiles>>
       \/ /\ getStagedChanges(output).panic
          /\ crashed' = TRUE
          /\ pc' = [pc EXCEPT ![Main] = "panicked"]
          /\ UNCHANGED <<Opts, Allowlist, entry, cancel, deferred, cancelCalls,
                         deadline, c, nparents, units, pi, bundle, patch, mode, refs,
                         ri, cc, semaphore, wg, err, logLen, yielded, stop, entered,
                         inlined, submitted, faulted, panicked, Commits, times,
                         firstErr, ret, calls, output, stagedFiles>>
       \/ /\ ~getStagedChanges(output).panic
          /\ stagedFiles' = getStagedChanges(output).stagedFiles
          /\ pc' = [pc EXCEPT ![Main] = "done"]
          /\ UNCHANGED <<Opts, Allowlist, entry, cancel, deferred, cancelCalls,
                         deadline, c, nparents, units, pi, bundle, patch, mode, refs,
                         ri, cc, semaphore, wg, err, logLen, yielded, stop, entered,
                         inlined, submitted, faulted, panicked, Commits, times,
                         firstErr, ret, crashed, calls, output>>

\* ------------------------------------------------------------ specification
Next ==
    \/ ScanSetupTimeout
    \/ ScanLoadConfig
    \/ SelectMode
    \/ WalkNext
    \/ GenPatch
    \/ Submit
    \/ Wait
    \/ ScanCommit
    \/ CommitsFileEnds
    \/ NextParent
    \/ FilesStart
    \/ NextFile
    \/ ScanPatchPanicMain
    \/ UncommittedSetup
    \/ UncommittedHead
    \/ NextStaged
    \/ ScanEmpty
    \/ NextEmpty
    \/ DeadlinePasses
    \/ \E t \in Goroutines :
          \/ ScanPatchStart(t)
          \/ NextFilePatch(t)
          \/ NextChunk(t)
          \/ CheckRulesReturns(t)
    \/ \E t \in Workers :
          \/ WorkerDone(t)
          \/ WorkerPanics(t)

Spec == Init /\ [][Next]_vars

\* The history scan alone, with its pool of workers.
NextPool ==
    \/ ScanSetupTimeout
    \/ ScanLoadConfig
    \/ SelectMode
    \/ WalkNext
    \/ GenPatch
    \/ Submit
    \/ Wait
    \/ FilesStart
    \/ NextFile
    \/ DeadlinePasses
    \/ \E t \in Goroutines :
          \/ ScanPatchStart(t)
          \/ NextFilePatch(t)
          \/ NextChunk(t)
          \/ CheckRulesReturns(t)
    \/ \E t \in Workers :
          \/ WorkerDone(t)
          \/ WorkerPanics(t)

SpecPool == InitPool /\ [][NextPool]_vars

\* getStagedChanges alone, on every output text.
NextParse == GetStagedChanges

SpecStaged == InitStaged /\ [][NextParse]_vars

\* The history scan under fair scheduling: the goroutine of Scan and every
\* worker goroutine that can take a step eventually takes one.
MainStep ==
    \/ ScanSetupTimeout
    \/ ScanLoadConfig
    \/ SelectMode
    \/ WalkNext
    \/ GenPatch
    \/ Submit
    \/ Wait
    \/ FilesStart
    \/ NextFile
    \/ CheckRulesReturns(Main)

WorkerStep(t) ==
    \/ ScanPatchStart(t)
    \/ NextFilePatch(t)
    \/ NextChunk(t)
    \/ CheckRulesReturns(t)
    \/ WorkerDone(t)
    \/ WorkerPanics(t)

SpecPoolFair ==
    /\ SpecPool
    /\ WF_vars(MainStep)
    /\ \A t \in Workers : WF_vars(WorkerStep(t))


\* ------------------------------------------------------------ claims
\* CheckRules invocations that have started and not returned, among the
\* goroutines of set S.
InFlight(S) == Cardinality({t \in S : pc[t] = "check"})

\* C1, as claimed: during a history scan with Threads = n >= 1 at most n
\* CheckRules invocations are in flight, counting those of the workers and
\* those made while the walk scans a root commit itself.
C1_AllInFlightWithinThreads ==
    (mode = "walk" /\ Opts.Threads >= 1) => InFlight(Goroutines) <= Opts.Threads

\* C1, amended: at most n invocations made by worker goroutines are in flight,
\* and at most n + 1 in all: the walk scans a root commit itself, without a
\* slot of the semaphore, while up to n workers run.
C1_WorkersInFlightWithinThreads ==
    (mode = "walk" /\ Opts.Threads >= 1) =>
        /\ InFlight(Workers) <= Opts.Threads
        /\ InFlight(Goroutines) <= Opts.Threads + 1
        /\ semaphore <= Opts.Threads

\* C1, witness: every slot is taken by a worker inside CheckRules and the walk
\* is blocked on the semaphore with the next worker.
C1_Witness ==
    /\ pc[Main] = "acquire"
    /\ semaphore = Opts.Threads
    /\ InFlight(Workers) = Opts.Threads

\* C2, as claimed: no CheckRules invocation starts for a unit the producer
\* reached after the deadline had passed.
C2_NoDispatchAfterDeadline ==
    \A t \in Goroutines : pc[t] = "check" => ~bundle[t].late

\* The terminal commit of the CommitTo option.
CommitToHash == NewHash(Opts.CommitTo)

\* C3, as claimed: with CommitTo = H no commit the iterator yields after H is
\* scanned or dispatched, and H, once a walk that no error stops has entered it
\* before the deadline, has been scanned or dispatched when Scan returns.
C3_CommitToEndsWalk ==
    (mode = "walk" /\ Opts.CommitTo # "") =>
        /\ \A h \in inlined \cup submitted : h <= CommitToHash
        /\ (/\ pc[Main] = "done"
            /\ CommitToHash \in entered
            /\ ~timeoutReached /\ stop # "error") => CommitToHash \in inlined \cup submitted

\* The commits of the log that are not allowlisted.
NotAllowlisted == {h \in 1..logLen : ~isCommitAllowListed(h, Allowlist)}

\* The commits the walk has entered are counted once each, and none of them is
\* allowlisted; the count never exceeds a depth that is set.
DepthCaps ==
    /\ cc = Cardinality(entered)
    /\ entered \cap Allowlist = {}
    /\ cc <= Opts.Depth

C5_NoAllowlistedCommit ==
    \A t \in Goroutines :
        (entry = "Scan" /\ pc[t] = "check") =>
            ~isCommitAllowListed(bundle[t].Commit.Hash, Allowlist)

\* C6, as claimed: no bundle built from a binary file is handed to CheckRules.
C6_NoBinaryFile ==
    \A t \in Goroutines : pc[t] = "check" => ~bundle[t].fromBinary

\* The fatal errors of the producers: commit resolution, first-parent lookup,
\* patch generation in scanCommitPatches, tree and file reads.
ProducerErrors ==
    {"ErrHead", "ErrCommitObject", "ErrParent", "ErrPatch", "ErrFiles", "ErrIsBinary",
     "ErrContents"}

\* C7, as claimed: Scan returns the first fatal error a producer met.
C7_FirstErrorReturned ==
    (entry = "Scan" /\ pc[Main] = "done" /\ firstErr \in ProducerErrors)
        => ret = firstErr

\* C8, as claimed: a panic of a worker does not leave the worker; the worker's
\* slot is released and the process goes on.
C8_WorkerPanicContained ==
    \A t \in panicked : ~crashed /\ pc[t] = "exited"

\* C9, as claimed: no worker is started for a commit whose patch generation
\* faulted, by a panic or by an error.
C9_FaultedCommitSkipped ==
    \A h \in faulted : h \notin submitted /\ pc[h] = "idle"

\* C10: when Scan has returned and a cancel handle is present, the handle has
\* been invoked exactly once; it is never invoked twice.
C10_CancelReleasedOnce ==
    entry = "Scan" =>
        /\ cancelCalls <= 1
        /\ (pc[Main] = "done" /\ cancel) => cancelCalls = 1

\* C10, witness: Scan returned an error of a producer and has invoked the
\* cancel handle.
C10_Witness ==
    /\ entry = "Scan" /\ pc[Main] = "done"
    /\ cancel /\ cancelCalls = 1
    /\ ret \in ProducerErrors


\* C11, as claimed: scanUncommitted installs the timeout before it loads the
\* per-repo configuration, as Scan does (a failing setupTimeout is what it
\* returns, and after a setupTimeout that succeeds the handle it installs is
\* present whatever happens next), and when it has returned a cancel handle
\* that is present has been invoked.
C11_UncommittedCancelReleased ==
    (entry = "scanUncommitted" /\ pc[Main] = "done") =>
        /\ setupTimeout(Opts.Timeout).err # nil => ret = setupTimeout(Opts.Timeout).err
        /\ setupTimeout(Opts.Timeout).err = nil => cancel = setupTimeout(Opts.Timeout).cancel
        /\ cancel => cancelCalls = 1

\* The production path the options select: the first one set, in the order
\* Commit, FilesAtCommit, Commits, CommitsFile, else the history walk.
SelectedMode ==
    CASE Opts.Commit # "" -> "Commit"
      [] Opts.Commit = "" /\ Opts.FilesAtCommit # "" -> "FilesAtCommit"
      [] Opts.Commit = "" /\ Opts.FilesAtCommit = "" /\ Opts.Commits # <<>> -> "Commits"
      [] OTHER -> IF Opts.CommitsFile # "" THEN "CommitsFile" ELSE "walk"

\* The references the selected path may hand to scanCommit.
SelectedRefs ==
    CASE SelectedMode = "Commit" -> {Opts.Commit}
      [] SelectedMode = "FilesAtCommit" -> {Opts.FilesAtCommit}
      [] SelectedMode = "Commits" -> {Opts.Commits[i] : i \in 1..Len(Opts.Commits)}
      [] SelectedMode = "CommitsFile" -> RefTexts
      [] OTHER -> {}

\* The positions of Main inside the history walk, inside scanCommitPatches and
\* the scanPatch it calls, and inside the paths that go through scanCommit
\* (scanFilesAtCommit is called on every path).
WalkPositions == {"walk", "patch", "acquire", "wait"}
PatchPositions == {"parent", "scanPatch", "filePatch", "chunk"}
CommitPositions == {"scanCommit"} \cup PatchPositions

\* No worker goroutine exists and the pool is untouched.
NoWorker ==
    /\ \A t \in Workers : pc[t] = "idle"
    /\ submitted = {} /\ semaphore = 0 /\ wg = 0

\* C12: Scan executes the production path of the first option set and only
\* that one: scanCommit is called with references of that option only, Main is
\* never at a position of another path, FilesAtCommit never scans a patch, and
\* outside the history walk no worker is started.
C12_OneProductionPath ==
    entry = "Scan" =>
        /\ mode \in {"none", SelectedMode}
        /\ \A i \in 1..Len(calls) : calls[i].commit \in SelectedRefs
        /\ SelectedMode = "walk" => calls = <<>> /\ pc[Main] \notin CommitPositions
        /\ SelectedMode # "walk" => NoWorker /\ pc[Main] \notin WalkPositions /\ yielded = 0
        /\ SelectedMode = "FilesAtCommit" => pc[Main] \notin PatchPositions
        /\ SelectedMode \in {"Commit", "FilesAtCommit"} => Len(calls) <= 1

\* C12, witness: Commit and FilesAtCommit are both set, to different commits,
\* and Scan has handed a bundle of a patch of the Commit option's commit to
\* CheckRules.
C12_Witness ==
    /\ entry = "Scan" /\ Opts.Commit # "" /\ Opts.FilesAtCommit # ""
    /\ Opts.Commit # Opts.FilesAtCommit
    /\ pc[Main] = "check" /\ bundle[Main].scanType = patchScan
    /\ String(bundle[Main].Commit.Hash) = Opts.Commit

\* The modes that call scanCommitPatches, and Main holding a root commit in one.
PatchModes == {"Commit", "Commits", "CommitsFile"}
RootInPatchMode == mode \in PatchModes /\ c[Main] # NilCommit /\ nparents = 0

\* C13: on a root commit scanCommitPatches does what scanFilesAtCommit does and
\* nothing more.  While it holds the root commit it is inside scanFilesAtCommit
\* or past it, it holds no patch, and every bundle it hands to CheckRules is
\* the one scanFilesAtCommit builds (scan type commitScan, operation Add, the
\* commit itself).  When scanFilesAtCommit returns an error scanCommit returns
\* that error at once; when it returns nil the walk over the parents produces
\* nothing and scanCommit returns nil.
C13_RootAsFilesAtCommit ==
    /\ [](RootInPatchMode =>
            /\ pc[Main] \in {"files", "file", "check", "parent"}
            /\ patch[Main] = "none"
            /\ pc[Main] = "check" =>
                  bundle[Main] = Bundle(c[Main], commitScan, Add, FALSE, bundle[Main].late))
    /\ [][/\ (RootInPatchMode /\ pc[Main] \in {"files", "file"}
                 /\ pc'[Main] \notin {"files", "file", "check"}) =>
                   IF firstErr' # nil
                   THEN pc'[Main] = "done" /\ ret' = firstErr'
                   ELSE pc'[Main] = "parent" /\ pi' = nparents'
          /\ (RootInPatchMode /\ pc[Main] = "parent") =>
                   /\ pc'[Main] \in {"parent", "scanCommit", "done"}
                   /\ firstErr' = nil
                   /\ pc'[Main] = "done" => ret' = nil]_vars

\* C13, witness: in the Commit mode, on a root commit, scanFilesAtCommit has
\* handed a bundle to CheckRules.
C13_Witness ==
    /\ mode = "Commit" /\ RootInPatchMode
    /\ pc[Main] = "check" /\ bundle[Main].scanType = commitScan
    /\ units[Main] = MaxUnits

\* The calls of scanCommit that got as far as one of the given stages.
CallsAt(stages) == Cardinality({i \in 1..Len(calls) : calls[i].at \in stages})

\* The history walk updates the manager's counter once, when Scan returns, by
\* the number of commits it entered; until then the counter is untouched.
WalkCountsEntered ==
    mode = "walk" =>
        /\ cc = Cardinality(entered)
        /\ Commits = IF pc[Main] = "done" THEN cc ELSE 0

\* C14, as claimed: after a history scan the counter has grown by the number
\* of commits the walk entered, and in the other modes it has grown by one for
\* each reference whose commit object was obtained and handed to a scanner;
\* bundles do not count.
C14_CountsEnteredCommits ==
    entry = "Scan" =>
        /\ WalkCountsEntered
        /\ mode # "walk" => Commits = CallsAt({"entered"})

\* C14, amended: in the other modes the counter has grown by one for each
\* reference that scanCommit resolved to a hash, the references whose commit
\* object could not be obtained included.
C14_CountsResolvedReferences ==
    entry = "Scan" =>
        /\ WalkCountsEntered
        /\ mode # "walk" => Commits = CallsAt({"entered", "ErrCommitObject"})

\* C14, witness: in the Commits mode the first reference was scanned, the
\* second names no commit, and Scan has returned with both counted.
C14_Witness ==
    /\ mode = "Commits" /\ pc[Main] = "done"
    /\ ret = "ErrCommitObject"
    /\ CallsAt({"entered"}) = 1 /\ Commits = 2

\* C15: every bundle scanUncommitted hands to CheckRules, on the staged-diff
\* path and on the empty-repo path, carries a commit that is not nil and is the
\* commit of the staged changes (zero hash, message "***STAGED CHANGES***",
\* empty author name and email, time 0 of the Unix epoch), and its scan type
\* is uncommittedScan.
C15_StagedBundlesCarrySentinel ==
    (entry = "scanUncommitted" /\ pc[Main] = "check") =>
        /\ bundle[Main].Commit # NilCommit
        /\ bundle[Main].Commit.Hash = ZeroHash
        /\ bundle[Main].Commit.Message = "***STAGED CHANGES***"
        /\ bundle[Main].Commit.Name = "" /\ bundle[Main].Commit.Email = ""
        /\ bundle[Main].Commit.When = 0
        /\ bundle[Main].scanType = uncommittedScan

\* C15, witness: the staged-diff path has handed the bundle of its last staged
\* file to CheckRules.
C15_Witness ==
    /\ entry = "scanUncommitted" /\ mode = "staged"
    /\ pc[Main] = "check" /\ units[Main] = MaxUnits

\* C16: a bundle scanPatch hands to CheckRules carries an Add hunk, or a
\* Delete hunk with the Deletion option set; never an Equal hunk, never a
\* Delete hunk without the option; and its Operation is the type of the hunk
\* its content was taken from.
C16_OnlyEligibleHunks ==
    \A t \in Goroutines :
        (pc[t] = "check" /\ bundle[t].scanType = patchScan) =>
            /\ bundle[t].Operation \in {Add, Delete}
            /\ bundle[t].Operation = Delete => Opts.Deletion
            /\ bundle[t].Content = ChunkContent(bundle[t].Operation)

\* C16, witness: with Deletion set a worker of the history walk has handed a
\* Delete hunk to CheckRules.
C16_Witness ==
    \E t \in Workers :
        /\ Opts.Deletion /\ pc[t] = "check"
        /\ bundle[t].scanType = patchScan /\ bundle[t].Operation = Delete

\* C17: when a history scan has returned, every worker it started has run its
\* deferred function to the end, the wait group and the semaphore are empty and
\* no goroutine is inside CheckRules, and it stays so; the scan time is
\* recorded and the commit counter updated only then.
C17_DrainedAtReturn ==
    mode = "walk" =>
        /\ pc[Main] = "done" =>
              /\ wg = 0 /\ semaphore = 0
              /\ InFlight(Goroutines) = 0
              /\ \A t \in Workers : pc[t] = IF t \in submitted THEN "exited" ELSE "idle"
        /\ (times.ScanTime > 0 \/ Commits > 0) =>
              /\ pc[Main] = "done"
              /\ \A t \in submitted : pc[t] = "exited"

\* C17, witness: Scan has returned from a walk that started a worker for every
\* commit of the log.
C17_Witness ==
    /\ mode = "walk" /\ pc[Main] = "done" /\ ret = nil
    /\ Cardinality(submitted) = MaxCommits
    /\ times.ScanTime = 1 /\ Commits = MaxCommits

\* The modes that scan a list of references.
ListModes == {"Commits", "CommitsFile"}

\* C18: in the Commits and CommitsFile modes scanCommit is called on the
\* references in the order given, one at a time; every call before the last
\* one entered its commit; at the first error Scan returns that error, and the
\* failing reference is the last one resolved, counted or scanned.
C18_ListStopsAtFirstError ==
    mode \in ListModes =>
        /\ Len(calls) <= ri
        /\ Commits <= Len(calls)
        /\ mode = "Commits" =>
              \A i \in 1..Len(calls) : i <= Len(Opts.Commits) /\ calls[i].commit = Opts.Commits[i]
        /\ \A i \in 1..(Len(calls) - 1) : calls[i].at = "entered"
        /\ firstErr # nil => pc[Main] = "done" /\ ret = firstErr
        /\ (pc[Main] = "done" /\ ret \notin {nil, "ErrOpen"}) =>
              Len(calls) = ri /\ c[Main] = NilCommit

\* C18, witness: the first of two references of the Commits option failed and
\* Scan has returned its error with the second reference untouched.
C18_Witness ==
    /\ mode = "Commits" /\ Len(Opts.Commits) = 2
    /\ pc[Main] = "done" /\ ret = "ErrCommitObject"
    /\ Len(calls) = 1 /\ Commits = 1

\* C19, as claimed: under fair scheduling a history scan eventually returns.
C19_ScanReturns == <>(pc[Main] = "done")

\* C19, what holds of the code: no interleaving of submit, release and drain
\* blocks for ever; a history scan eventually returns unless a panic of a
\* worker has ended the process.
ScanReturnsOrProcessEnds == <>(pc[Main] = "done" \/ crashed)

\* C20, as claimed: getStagedChanges parses every output text without an index
\* out of range.
C20_ParseNeverFaults ==
    entry = "getStagedChanges" => pc[Main] # "panicked"

====
